---- MODULE Spec2Model ----
(***************************************************************************)
(* State-machine model of the commercial real-estate listing browser:      *)
(* the PropertyGrid component (selection set, comparison overlay, reveal   *)
(* window with its load-more delay) and the SearchAndFilters component     *)
(* (filter criteria, debounced search term, filter/sort pipeline).         *)
(*                                                                         *)
(* A listing is referred to by its id; the records themselves are the      *)
(* fixed Catalog (the arrays of the program hold references to the same    *)
(* listing objects, so an array of listings is a sequence of ids here).    *)
(* A text is a sequence of one-character strings.                          *)
(***************************************************************************)
EXTENDS Integers, Sequences, FiniteSets, TLC

(***************************************************************************)
(* Bounds of the model and constants of the program.                       *)
(***************************************************************************)
NumListings == 20      \* listings in the collection handed to the grid
MaxClick == 5          \* the user ticks cards of listings 1..MaxClick only
MaxAttempts == 5       \* length of a recorded run of toggle-on attempts

PageSize == 8          \* useState(8), prev + 8
MaxSelected == 4       \* next.size >= 4
minSize == 600         \* fixed minimum of 600 sqft
PriceStep == 1000      \* step of the price sliders
SizeStep == 100        \* step of the area sliders
PositiveInfinity == 1000000000   \* Number.POSITIVE_INFINITY, above every price, area and age
MaxRetries == 3        \* retryCount < 3
MaxRuns == 2           \* runs of the filter effect followed on one collection

(***************************************************************************)
(* Texts.                                                                  *)
(***************************************************************************)
toLowerCase(s) ==
    [k \in 1..Len(s) |->
        CASE s[k] = "A" -> "a"
          [] s[k] = "B" -> "b"
          [] s[k] = "C" -> "c"
          [] OTHER -> s[k]]

\* s.includes(t): t occurs in s as a contiguous run (the empty text always does)
includes(s, t) ==
    \E k \in 0..(Len(s) - Len(t)) :
        \A j \in 1..Len(t) : s[k + j] = t[j]

\* `${city}, ${state}`
LocationOf(city, state) == city \o <<",", " ">> \o state

PrimaryRank(c) ==
    CASE c \in {"a", "A"} -> 1
      [] c \in {"b", "B"} -> 2
      [] c \in {"c", "C"} -> 3
      [] OTHER -> 4

TertiaryRank(c) == IF c \in {"A", "B", "C"} THEN 1 ELSE 0

\* lexicographic comparison of two sequences of ranks, from position k on
RECURSIVE LexCompare(_, _, _)
LexCompare(s, t, k) ==
    IF k > Len(s) /\ k > Len(t) THEN 0
    ELSE IF k > Len(s) THEN -1
    ELSE IF k > Len(t) THEN 1
    ELSE IF s[k] < t[k] THEN -1
    ELSE IF s[k] > t[k] THEN 1
    ELSE LexCompare(s, t, k + 1)

\* a.localeCompare(b): letters first, case only between otherwise equal texts
localeCompare(s, t) ==
    LET sp == [k \in 1..Len(s) |-> PrimaryRank(s[k])]
        tp == [k \in 1..Len(t) |-> PrimaryRank(t[k])]
        st == [k \in 1..Len(s) |-> TertiaryRank(s[k])]
        tt == [k \in 1..Len(t) |-> TertiaryRank(t[k])]
    IN  IF LexCompare(sp, tp, 1) # 0
        THEN LexCompare(sp, tp, 1)
        ELSE LexCompare(st, tt, 1)

(***************************************************************************)
(* The listing collection (the data file is an input of the program).      *)
(***************************************************************************)
propertyTypes == <<"office", "retail", "industrial", "warehouse">>

Titles == << <<"A", "b">>, <<"a", "c">>, <<"b", "a">>, <<"B">>, <<"a", "b">> >>
Cities == << <<"a", "c">>, <<"c", "b">>, <<"b">> >>
States == << <<"C", "A">>, <<"B", "C">> >>
AmenityLists ==
    << <<>>, << <<"a", "b">> >>, << <<"c">>, <<"A", "b">> >>, << <<"a", "b">>, <<"c">> >> >>

Listing(i) ==
    [ id |-> i,
      title |-> Titles[(i % 5) + 1],
      description |-> Titles[((i * 2) % 5) + 1] \o Cities[(i % 3) + 1],
      type |-> propertyTypes[((i - 1) % 4) + 1],
      city |-> Cities[(i % 3) + 1],
      state |-> States[(i % 2) + 1],
      price_per_sqft |-> 10 + 5 * (i % 4),
      total_sqft |-> IF i % 10 = 0 THEN 500 ELSE 600 + 100 * (i % 6),
      year_built |-> IF i % 4 = 3 THEN 0 ELSE 1990 + 3 * (i % 7),
      date_listed |-> [year |-> 2024, month |-> 1 + (i % 3), day |-> 1 + (i % 5)],
      amenities |-> AmenityLists[(i % 4) + 1] ]

\* the listing records, by id
Listings == [i \in 1..NumListings |-> Listing(i)]
Catalog(i) == Listings[i]

\* new Date(d).getTime(), up to an order-preserving change of unit
getTime(d) == (d.year * 12 + (d.month - 1)) * 31 + (d.day - 1)

totalPrice(p) == p.price_per_sqft * p.total_sqft

Range(s) == {s[k] : k \in 1..Len(s)}

RECURSIVE SetMin(_)
SetMin(S) ==
    LET x == CHOOSE y \in S : TRUE
    IN  IF S = {x} THEN x
        ELSE LET m == SetMin(S \ {x}) IN IF x < m THEN x ELSE m

RECURSIVE SetMax(_)
SetMax(S) ==
    LET x == CHOOSE y \in S : TRUE
    IN  IF S = {x} THEN x
        ELSE LET m == SetMax(S \ {x}) IN IF x > m THEN x ELSE m

minPrice(props) == SetMin({totalPrice(Catalog(i)) : i \in Range(props)})
maxPrice(props) == SetMax({totalPrice(Catalog(i)) : i \in Range(props)})
maxSize(props) == SetMax({Catalog(i).total_sqft : i \in Range(props)})

(***************************************************************************)
(* The filter/sort pipeline of the filter effect.                          *)
(***************************************************************************)
\* the amenities are not searched
MatchesSearch_NoAmenities(p, term) ==
    LET searchLower == toLowerCase(term)
    IN  \/ includes(toLowerCase(p.title), searchLower)
        \/ includes(toLowerCase(p.description), searchLower)
        \/ includes(toLowerCase(p.city), searchLower)
        \/ includes(toLowerCase(p.state), searchLower)

MatchesSearch(p, term) ==
    LET searchLower == toLowerCase(term)
    IN  \/ includes(toLowerCase(p.title), searchLower)
        \/ includes(toLowerCase(p.description), searchLower)
        \/ includes(toLowerCase(p.city), searchLower)
        \/ includes(toLowerCase(p.state), searchLower)
        \/ \E k \in 1..Len(p.amenities) :
              includes(toLowerCase(p.amenities[k]), searchLower)

SearchStage(s, term) ==
    IF term # <<>>
    THEN LET Keep(i) == MatchesSearch(Catalog(i), term) IN SelectSeq(s, Keep)
    ELSE s

\* the filter is applied whether or not a type is ticked
TypeStage_NoGuard(s, f) ==
    LET Keep(i) == Catalog(i).type \in Range(f.selectedTypes) IN SelectSeq(s, Keep)

TypeStage(s, f) ==
    IF Len(f.selectedTypes) > 0
    THEN LET Keep(i) == Catalog(i).type \in Range(f.selectedTypes) IN SelectSeq(s, Keep)
    ELSE s

\* a price equal to a bound of the range is outside the range
PriceStage_Exclusive(s, f) ==
    LET Keep(i) == /\ totalPrice(Catalog(i)) > f.priceRange[1]
                   /\ totalPrice(Catalog(i)) < f.priceRange[2]
    IN  SelectSeq(s, Keep)

PriceStage(s, f) ==
    LET Keep(i) == /\ totalPrice(Catalog(i)) >= f.priceRange[1]
                   /\ totalPrice(Catalog(i)) <= f.priceRange[2]
    IN  SelectSeq(s, Keep)

SizeStage(s, f) ==
    LET Keep(i) == /\ Catalog(i).total_sqft >= f.sizeRange[1]
                   /\ Catalog(i).total_sqft <= f.sizeRange[2]
    IN  SelectSeq(s, Keep)

LocationStage(s, f) ==
    IF Len(f.selectedLocations) > 0
    THEN LET Keep(i) ==
                 LocationOf(Catalog(i).city, Catalog(i).state) \in Range(f.selectedLocations)
         IN  SelectSeq(s, Keep)
    ELSE s

\* one of the required amenities is enough
AmenitiesStage_Any(s, f) ==
    IF Len(f.selectedAmenities) > 0
    THEN LET Keep(i) ==
                 \E k \in 1..Len(f.selectedAmenities) :
                     f.selectedAmenities[k] \in Range(Catalog(i).amenities)
         IN  SelectSeq(s, Keep)
    ELSE s

\* the amenities of the listing must all be required ones
AmenitiesStage_Reversed(s, f) ==
    IF Len(f.selectedAmenities) > 0
    THEN LET Keep(i) ==
                 \A k \in 1..Len(Catalog(i).amenities) :
                     Catalog(i).amenities[k] \in Range(f.selectedAmenities)
         IN  SelectSeq(s, Keep)
    ELSE s

AmenitiesStage(s, f) ==
    IF Len(f.selectedAmenities) > 0
    THEN LET Keep(i) ==
                 \A k \in 1..Len(f.selectedAmenities) :
                     f.selectedAmenities[k] \in Range(Catalog(i).amenities)
         IN  SelectSeq(s, Keep)
    ELSE s

\* the two date keys sort the other way round
SortCompare_DatesSwapped(sortBy, a, b) ==
    CASE sortBy = "date_listed" -> getTime(a.date_listed) - getTime(b.date_listed)
      [] sortBy = "date_listed_old" -> getTime(b.date_listed) - getTime(a.date_listed)
      [] sortBy = "price_low" -> totalPrice(a) - totalPrice(b)
      [] sortBy = "price_high" -> totalPrice(b) - totalPrice(a)
      [] sortBy = "size_large" -> b.total_sqft - a.total_sqft
      [] sortBy = "size_small" -> a.total_sqft - b.total_sqft
      [] sortBy = "title" -> localeCompare(a.title, b.title)
      [] OTHER -> 0

\* the comparator handed to filtered.sort
SortCompare(sortBy, a, b) ==
    CASE sortBy = "date_listed" -> getTime(b.date_listed) - getTime(a.date_listed)
      [] sortBy = "date_listed_old" -> getTime(a.date_listed) - getTime(b.date_listed)
      [] sortBy = "price_low" -> totalPrice(a) - totalPrice(b)
      [] sortBy = "price_high" -> totalPrice(b) - totalPrice(a)
      [] sortBy = "size_large" -> b.total_sqft - a.total_sqft
      [] sortBy = "size_small" -> a.total_sqft - b.total_sqft
      [] sortBy = "title" -> localeCompare(a.title, b.title)
      [] OTHER -> 0

\* x goes in front of the elements it compares equal to
RECURSIVE InsertSorted_BeforeEquals(_, _, _)
InsertSorted_BeforeEquals(sortBy, x, s) ==
    IF s = <<>> THEN <<x>>
    ELSE IF SortCompare(sortBy, Catalog(Head(s)), Catalog(x)) < 0
         THEN <<Head(s)>> \o InsertSorted_BeforeEquals(sortBy, x, Tail(s))
         ELSE <<x>> \o s

\* x goes behind every element that does not sort after it
RECURSIVE InsertSorted(_, _, _)
InsertSorted(sortBy, x, s) ==
    IF s = <<>> THEN <<x>>
    ELSE IF SortCompare(sortBy, Catalog(Head(s)), Catalog(x)) <= 0
         THEN <<Head(s)>> \o InsertSorted(sortBy, x, Tail(s))
         ELSE <<x>> \o s

\* Array.prototype.sort: a stable sort by the comparator
RECURSIVE SortStage(_, _)
SortStage(s, sortBy) ==
    IF s = <<>> THEN <<>>
    ELSE InsertSorted(sortBy, s[Len(s)], SortStage(SubSeq(s, 1, Len(s) - 1), sortBy))

\* the array the filter effect hands to onFilteredProperties
ApplyFilters(props, term, f) ==
    SortStage(
        AmenitiesStage(
            LocationStage(
                SizeStage(
                    PriceStage(
                        TypeStage(SearchStage(props, term), f), f), f), f), f),
        f.sortBy)


(***************************************************************************)
(* State.                                                                  *)
(***************************************************************************)
VARIABLES
    properties,           \* App: the collection handed to PropertyGrid
    filters,              \* SearchAndFilters: FilterState
    debouncedSearchTerm,  \* SearchAndFilters: useDebounce(filters.searchTerm, 300)
    debounceTimer,        \* pending debounce callbacks, each with the value it will propagate
    filteredProperties,   \* PropertyGrid: the array last handed to onFilteredProperties
    selectedIds,          \* PropertyGrid: the selection set
    isCompareOpen,        \* PropertyGrid: the comparison overlay is open
    visibleCount,         \* PropertyGrid: the reveal count
    isLoadingMore,        \* PropertyGrid
    hasMore,              \* PropertyGrid
    loadTimers,           \* pending load-more callbacks, each with the length its closure captured
    toggleLog,            \* history of the toggleSelect calls made directly (see SelToggle)
    filtered,             \* filter effect: its local array, while a run is followed step by step
    stage,                \* filter effect: the statement a followed run has completed
    mounted,              \* the grid component is mounted
    marks,                \* CompareModal: the best-marks of its last render
    app,                  \* App: loading, error and what it was given as the collection
    image                 \* PropertyImage: the state of one image

vars == <<properties, filters, debouncedSearchTerm, debounceTimer, filteredProperties,
          selectedIds, isCompareOpen, visibleCount, isLoadingMore, hasMore, loadTimers,
          toggleLog, filtered, stage, mounted, marks, app, image>>

filterVars == <<filters, debouncedSearchTerm, debounceTimer>>
revealVars == <<filteredProperties, visibleCount, isLoadingMore, hasMore, loadTimers>>
selectVars == <<selectedIds, isCompareOpen>>
pipeVars == <<filtered, stage>>
viewVars == <<mounted, marks, app, image>>

(***************************************************************************)
(* Inputs of the user in the model.                                        *)
(***************************************************************************)
SearchInputs == {<<>>, <<"B">>, <<"c", "b">>}
TypeInputs == {"office", "warehouse"}
SortInputs == {"date_listed", "price_low"}
ClickIds == 1..MaxClick
ToggleIds == 1..(MaxClick + 1)

(***************************************************************************)
(* PropertyGrid: derived values.                                           *)
(***************************************************************************)
\* s.slice(from, to)
slice(s, from, to) == SubSeq(s, from + 1, IF to < Len(s) THEN to ELSE Len(s))

visibleProperties == slice(filteredProperties, 0, visibleCount)

\* the overlay is given every selected listing of the collection
CompareList_OfCollection ==
    LET Selected(i) == Catalog(i).id \in selectedIds
    IN  slice(SelectSeq(properties, Selected), 0, 4)

\* the properties prop of CompareModal
CompareList ==
    LET Selected(i) == Catalog(i).id \in selectedIds
    IN  slice(SelectSeq(filteredProperties, Selected), 0, 4)

\* the floating compare button is rendered
CompareOffered == Cardinality(selectedIds) >= 2

\* the sentinel the IntersectionObserver watches is rendered
SentinelShown == hasMore /\ ~isLoadingMore

(***************************************************************************)
(* Selection.                                                              *)
(***************************************************************************)
\* mutants of toggleSelect: no cap; a cap of five; the cap tested before the branch
toggleSelect_NoCap(prev, id, checked) ==
    IF checked THEN prev \cup {id} ELSE prev \ {id}

toggleSelect_OffByOne(prev, id, checked) ==
    IF checked
    THEN IF Cardinality(prev) > MaxSelected THEN prev ELSE prev \cup {id}
    ELSE prev \ {id}

toggleSelect_GuardFirst(prev, id, checked) ==
    IF Cardinality(prev) >= MaxSelected THEN prev
    ELSE IF checked THEN prev \cup {id} ELSE prev \ {id}

\* the updater of toggleSelect: the next selection set
toggleSelect(prev, id, checked) ==
    LET next == prev
    IN  IF checked
        THEN IF Cardinality(next) >= MaxSelected THEN next ELSE next \cup {id}
        ELSE next \ {id}

\* the checkbox of a rendered card: e.target.checked is the opposite of selected
CardToggle(id) ==
    /\ id \in Range(visibleProperties)
    /\ selectedIds' = toggleSelect(selectedIds, id, ~(id \in selectedIds))
    /\ UNCHANGED <<properties, pipeVars, viewVars, filterVars, revealVars, isCompareOpen, toggleLog>>

\* CompareModal: the Remove button of a compared listing, onRemove(id)
onRemove(id) ==
    /\ isCompareOpen
    /\ id \in Range(CompareList)
    /\ selectedIds' = toggleSelect(selectedIds, id, FALSE)
    /\ UNCHANGED <<properties, pipeVars, viewVars, filterVars, revealVars, isCompareOpen, toggleLog>>

\* no direct call made yet; onRun: only distinct toggle-on calls so far, ids: their ids
\* in order; last: the last call <<id, checked>>; before: the selection set it was made on
NoCalls == [onRun |-> TRUE, ids |-> <<>>, last |-> <<>>, before |-> {}]

\* toggleSelect(id, checked) called with any id and any desired state
SelToggle(id, checked) ==
    /\ selectedIds' = toggleSelect(selectedIds, id, checked)
    /\ toggleLog' =
           [ onRun |-> /\ toggleLog.onRun
                       /\ checked
                       /\ id \notin Range(toggleLog.ids)
                       /\ Len(toggleLog.ids) < MaxAttempts,
             ids |-> IF /\ toggleLog.onRun
                        /\ checked
                        /\ id \notin Range(toggleLog.ids)
                        /\ Len(toggleLog.ids) < MaxAttempts
                     THEN Append(toggleLog.ids, id)
                     ELSE <<>>,
             last |-> <<id, checked>>,
             before |-> selectedIds ]
    /\ UNCHANGED <<properties, pipeVars, viewVars, filterVars, revealVars, isCompareOpen>>

OpenCompare ==
    /\ CompareOffered
    /\ ~isCompareOpen
    /\ isCompareOpen' = TRUE
    /\ UNCHANGED <<properties, pipeVars, viewVars, filterVars, revealVars, selectedIds, toggleLog>>

CloseCompare ==
    /\ isCompareOpen
    /\ isCompareOpen' = FALSE
    /\ UNCHANGED <<properties, pipeVars, viewVars, filterVars, revealVars, selectedIds, toggleLog>>

(***************************************************************************)
(* CompareModal: the best-marks of a render.  `list` is its properties     *)
(* prop, `year` is new Date().getFullYear(), k a position in the list.     *)
(***************************************************************************)
\* p.year_built is truthy
hasYear(p) == p.year_built # 0

\* age(p) ?? Number.POSITIVE_INFINITY
ageOrInfinity(p, year) == IF hasYear(p) THEN year - p.year_built ELSE PositiveInfinity

\* Math.min of no argument is Infinity, Math.max of no argument -Infinity
bestPrice(list) ==
    IF list = <<>> THEN PositiveInfinity
    ELSE SetMin({totalPrice(Catalog(list[k])) : k \in 1..Len(list)})

bestSize(list) ==
    IF list = <<>> THEN -PositiveInfinity
    ELSE SetMax({Catalog(list[k]).total_sqft : k \in 1..Len(list)})

bestAge(list, year) ==
    IF list = <<>> THEN PositiveInfinity
    ELSE SetMin({ageOrInfinity(Catalog(list[k]), year) : k \in 1..Len(list)})

isPriceBest(list, k) == totalPrice(Catalog(list[k])) = bestPrice(list)

\* of the listings with the greatest area only the first is marked
isSizeBest_FirstOnly(list, k) ==
    /\ Catalog(list[k]).total_sqft = bestSize(list)
    /\ \A j \in 1..(k - 1) : Catalog(list[j]).total_sqft # bestSize(list)

isSizeBest(list, k) == Catalog(list[k]).total_sqft = bestSize(list)

\* the age of a listing without year_built compares as Infinity
isAgeBest_NoNullGuard(list, year, k) ==
    ageOrInfinity(Catalog(list[k]), year) = bestAge(list, year)

\* a !== null && a === bestAge
isAgeBest(list, year, k) ==
    /\ hasYear(Catalog(list[k]))
    /\ year - Catalog(list[k]).year_built = bestAge(list, year)

CompareMarks(list, year) ==
    [ list |-> list,
      year |-> year,
      price |-> [k \in 1..Len(list) |-> isPriceBest(list, k)],
      size |-> [k \in 1..Len(list) |-> isSizeBest(list, k)],
      age |-> [k \in 1..Len(list) |-> isAgeBest(list, year, k)] ]

\* CompareModal renders (it returns null unless isOpen)
RenderCompare(year) ==
    /\ isCompareOpen
    /\ marks' = CompareMarks(CompareList, year)
    /\ UNCHANGED <<properties, pipeVars, filterVars, revealVars, selectVars, toggleLog,
                   mounted, app, image>>

(***************************************************************************)
(* Reveal window.                                                          *)
(***************************************************************************)
\* mutant of loadMoreProperties: the guard tests hasMore only
loadMoreProperties_NoLoadingGuard ==
    /\ IF ~hasMore
       THEN UNCHANGED <<isLoadingMore, loadTimers>>
       ELSE /\ isLoadingMore' = TRUE
            /\ loadTimers' = Append(loadTimers, Len(filteredProperties))
    /\ UNCHANGED <<properties, pipeVars, viewVars, filterVars, selectVars, filteredProperties, visibleCount,
                   hasMore, toggleLog>>

\* loadMoreProperties, however it is invoked
loadMoreProperties ==
    /\ IF isLoadingMore \/ ~hasMore
       THEN UNCHANGED <<isLoadingMore, loadTimers>>
       ELSE /\ isLoadingMore' = TRUE
            /\ loadTimers' = Append(loadTimers, Len(filteredProperties))
    /\ UNCHANGED <<properties, pipeVars, viewVars, filterVars, selectVars, filteredProperties, visibleCount,
                   hasMore, toggleLog>>

\* mutant of nextCount: the count is doubled
nextCount_Double(prev) == prev * 2

\* const newCount = prev + 8
nextCount(prev) == prev + PageSize

\* mutant of LoadTimerFires: isLoadingMore is not cleared
LoadTimerFires_KeepsLoading ==
    /\ loadTimers # <<>>
    /\ visibleCount' = visibleCount + PageSize
    /\ hasMore' = (visibleCount' < Head(loadTimers))
    /\ loadTimers' = Tail(loadTimers)
    /\ UNCHANGED <<properties, pipeVars, viewVars, filterVars, selectVars, filteredProperties, isLoadingMore,
                   toggleLog>>

\* the state updates of the callback are applied to a grid that is torn down
LoadTimerFires_OnTornDown ==
    /\ loadTimers # <<>>
    /\ LET newCount == nextCount(visibleCount)
       IN  /\ visibleCount' = newCount
           /\ hasMore' = (newCount < Head(loadTimers))
           /\ isLoadingMore' = FALSE
    /\ loadTimers' = Tail(loadTimers)
    /\ UNCHANGED <<properties, pipeVars, viewVars, filterVars, selectVars, filteredProperties, toggleLog>>

\* the callback of setTimeout(..., 500) runs; the timeout is not cleared when the
\* grid is unmounted, and React drops the state updates of an unmounted component
LoadTimerFires ==
    /\ loadTimers # <<>>
    /\ IF mounted
       THEN LET newCount == nextCount(visibleCount)
            IN  /\ visibleCount' = newCount
                /\ hasMore' = (newCount < Head(loadTimers))
                /\ isLoadingMore' = FALSE
       ELSE UNCHANGED <<visibleCount, hasMore, isLoadingMore>>
    /\ loadTimers' = Tail(loadTimers)
    /\ UNCHANGED <<properties, pipeVars, viewVars, filterVars, selectVars, filteredProperties, toggleLog>>

\* mutant of EmitFiltered: the reset effect leaves the reveal count alone
EmitFiltered_NoCountReset(term, f) ==
    /\ filteredProperties' = ApplyFilters(properties, term, f)
    /\ hasMore' = (Len(filteredProperties') > visibleCount)
    /\ UNCHANGED <<visibleCount, isLoadingMore, loadTimers>>

\* the filter effect (onFilteredProperties) followed by the reset effect of the grid
EmitFiltered(term, f) ==
    /\ filteredProperties' = ApplyFilters(properties, term, f)
    /\ visibleCount' = PageSize
    /\ hasMore' = (Len(filteredProperties') > PageSize)
    /\ UNCHANGED <<isLoadingMore, loadTimers>>

(***************************************************************************)
(* Filter criteria.                                                        *)
(***************************************************************************)
\* prev.includes(x) ? prev.filter(y => y !== x) : [...prev, x]
toggleMember(arr, x) ==
    IF x \in Range(arr)
    THEN LET Other(y) == y # x IN SelectSeq(arr, Other)
    ELSE Append(arr, x)

\* useDebounce: a changed value cancels the pending callback and schedules a new one
Reschedule(value) ==
    debounceTimer' = IF value # filters.searchTerm THEN <<value>> ELSE debounceTimer

\* mutant of handleSearchChange: the pipeline runs on the raw text of the input
handleSearchChange_Immediate(term) ==
    /\ term # filters.searchTerm
    /\ filters' = [filters EXCEPT !.searchTerm = term]
    /\ Reschedule(term)
    /\ EmitFiltered(term, filters')
    /\ UNCHANGED <<properties, pipeVars, viewVars, debouncedSearchTerm, selectVars, toggleLog>>

\* a keystroke in the search box
handleSearchChange(term) ==
    /\ term # filters.searchTerm
    /\ filters' = [filters EXCEPT !.searchTerm = term]
    /\ Reschedule(term)
    /\ EmitFiltered(debouncedSearchTerm, filters')
    /\ UNCHANGED <<properties, pipeVars, viewVars, debouncedSearchTerm, selectVars, toggleLog>>

\* the debounce callback runs: setDebouncedValue(value)
DebounceFires ==
    /\ debounceTimer # <<>>
    /\ LET value == Head(debounceTimer)
       IN  /\ debouncedSearchTerm' = value
           /\ IF value # debouncedSearchTerm
              THEN EmitFiltered(value, filters)
              ELSE UNCHANGED revealVars
    /\ debounceTimer' = <<>>
    /\ UNCHANGED <<properties, pipeVars, viewVars, filters, selectVars, toggleLog>>

handleTypeToggle(type) ==
    /\ filters' = [filters EXCEPT !.selectedTypes = toggleMember(@, type)]
    /\ EmitFiltered(debouncedSearchTerm, filters')
    /\ UNCHANGED <<properties, pipeVars, viewVars, debouncedSearchTerm, debounceTimer, selectVars, toggleLog>>

handleSortChange(sortBy) ==
    /\ sortBy # filters.sortBy
    /\ filters' = [filters EXCEPT !.sortBy = sortBy]
    /\ EmitFiltered(debouncedSearchTerm, filters')
    /\ UNCHANGED <<properties, pipeVars, viewVars, debouncedSearchTerm, debounceTimer, selectVars, toggleLog>>

(***************************************************************************)
(* Initial state: the grid is mounted and its mount effects have run.      *)
(***************************************************************************)
InitialFilters(props) ==
    [ searchTerm |-> <<>>,
      selectedTypes |-> <<>>,
      priceRange |-> <<minPrice(props), maxPrice(props)>>,
      sizeRange |-> <<minSize, maxSize(props)>>,
      selectedLocations |-> <<>>,
      selectedAmenities |-> <<>>,
      sortBy |-> "date_listed" ]

clearFilters ==
    /\ filters' = InitialFilters(properties)
    /\ Reschedule(<<>>)
    /\ EmitFiltered(debouncedSearchTerm, filters')
    /\ UNCHANGED <<properties, pipeVars, viewVars, debouncedSearchTerm, selectVars, toggleLog>>

\* the comparison overlay has not been rendered
NoMarks == [list |-> <<>>, year |-> 0, price |-> <<>>, size |-> <<>>, age |-> <<>>]

\* App has loaded an array of listings and renders the grid
AppShowsGrid == [data |-> "array", loading |-> FALSE, error |-> FALSE, crashed |-> FALSE]

\* no image is followed
NoImage ==
    [ propertyType |-> "office", imageSrc |-> "none", isLoading |-> FALSE, hasError |-> FALSE,
      retryCount |-> 0, isDefaultImage |-> FALSE, replaced |-> 0 ]

\* no run of the filter effect is followed step by step
NotFollowed == [at |-> "none", run |-> 0]

\* the grid after its first render, whatever image a card shows
InitGrid ==
    /\ properties = [i \in 1..NumListings |-> i]
    /\ filters = InitialFilters(properties)
    /\ debouncedSearchTerm = <<>>
    /\ debounceTimer = <<>>
    /\ filteredProperties = ApplyFilters(properties, debouncedSearchTerm, filters)
    /\ selectedIds = {}
    /\ isCompareOpen = FALSE
    /\ visibleCount = PageSize
    /\ isLoadingMore = FALSE
    /\ hasMore = (Len(filteredProperties) > PageSize)
    /\ loadTimers = <<>>
    /\ toggleLog = NoCalls
    /\ filtered = <<>>
    /\ stage = NotFollowed
    /\ mounted = TRUE
    /\ marks = NoMarks
    /\ app = AppShowsGrid

Init ==
    /\ InitGrid
    /\ image = NoImage

Next ==
    \/ \E id \in ClickIds : CardToggle(id)
    \/ \E id \in ClickIds : onRemove(id)
    \/ OpenCompare
    \/ CloseCompare
    \/ loadMoreProperties
    \/ LoadTimerFires
    \/ \E term \in SearchInputs : handleSearchChange(term)
    \/ DebounceFires
    \/ \E type \in TypeInputs : handleTypeToggle(type)
    \/ clearFilters

Spec == Init /\ [][Next]_vars

\* the reveal window alone, under filter changes; the callback of a load-more
\* setTimeout is eventually run
NextReveal ==
    \/ loadMoreProperties
    \/ LoadTimerFires
    \/ \E type \in TypeInputs : handleTypeToggle(type)
    \/ \E term \in SearchInputs : handleSearchChange(term)
    \/ DebounceFires

FairReveal == Init /\ [][NextReveal]_vars /\ WF_vars(LoadTimerFires)

\* the selection tracker alone: toggleSelect applied to arbitrary calls
NextSel == \E id \in ToggleIds, checked \in BOOLEAN : SelToggle(id, checked)

SpecSel == Init /\ [][NextSel]_vars


(***************************************************************************)
(* The filter effect followed statement by statement, for collections and  *)
(* criteria drawn from bounded sets.                                       *)
(***************************************************************************)
sortOptions ==
    {"date_listed", "date_listed_old", "price_low", "price_high", "size_large",
     "size_small", "title"}

\* the collections handed to the grid
PipeCollections == { <<16, 1, 20, 5, 7, 4>>, <<3, 18, 2, 17, 9, 14>> }

\* what the search input can hold once the debounce has settled
PipeTerms == {<<>>, <<"A", "B">>, <<"c", "b">>}
\* what the type, location and amenity checkboxes can leave ticked
PipeTypeSets == {<<>>, <<"office">>, <<"warehouse", "office">>}
PipeLocationSets == {<<>>, <<LocationOf(Cities[2], States[1])>>}
PipeAmenitySets == {<<>>, << <<"a", "b">> >>, << <<"a", "b">>, <<"c">> >>}
\* where the range sliders can stand
PipePriceRanges(props) ==
    { <<minPrice(props), maxPrice(props)>>,
      <<minPrice(props) + 5 * PriceStep, maxPrice(props)>>,
      <<minPrice(props), minPrice(props) + 4 * PriceStep>> }
PipeSizeRanges(props) ==
    { <<minSize, maxSize(props)>>,
      <<minSize + SizeStep, maxSize(props)>>,
      <<minSize, maxSize(props) - SizeStep>> }

PipeFilters(props) ==
    { [ searchTerm |-> term,
        selectedTypes |-> types,
        priceRange |-> price,
        sizeRange |-> size,
        selectedLocations |-> locations,
        selectedAmenities |-> amenities,
        sortBy |-> sortBy ] :
      term \in PipeTerms, types \in PipeTypeSets, price \in PipePriceRanges(props),
      size \in PipeSizeRanges(props), locations \in PipeLocationSets,
      amenities \in PipeAmenitySets, sortBy \in sortOptions }

\* the effect is about to run for the first time with the criteria of the state
InitPipe ==
    /\ properties \in PipeCollections
    /\ filters \in PipeFilters(properties)
    /\ debouncedSearchTerm = filters.searchTerm
    /\ debounceTimer = <<>>
    /\ filteredProperties = properties
    /\ selectedIds = {}
    /\ isCompareOpen = FALSE
    /\ visibleCount = PageSize
    /\ isLoadingMore = FALSE
    /\ hasMore = (Len(filteredProperties) > PageSize)
    /\ loadTimers = <<>>
    /\ toggleLog = NoCalls
    /\ filtered = <<>>
    /\ stage = [at |-> "start", run |-> 1]
    /\ mounted = TRUE
    /\ marks = NoMarks
    /\ app = AppShowsGrid
    /\ image = NoImage

\* one statement of the effect: from stage `from` to stage `to`, leaving `result`
\* in the local array
PipeStep(from, to, result) ==
    /\ stage.at = from
    /\ stage' = [stage EXCEPT !.at = to]
    /\ filtered' = result
    /\ UNCHANGED <<properties, viewVars, filterVars, revealVars, selectVars, toggleLog>>

\* let filtered = [...properties]
PipeCopy == PipeStep("start", "copied", properties)

PipeSearch == PipeStep("copied", "search", SearchStage(filtered, debouncedSearchTerm))

PipeType == PipeStep("search", "type", TypeStage(filtered, filters))

PipePrice == PipeStep("type", "price", PriceStage(filtered, filters))

PipeSize == PipeStep("price", "size", SizeStage(filtered, filters))

PipeLocation == PipeStep("size", "location", LocationStage(filtered, filters))

PipeAmenities == PipeStep("location", "amenities", AmenitiesStage(filtered, filters))

\* the sort is also done in place on the collection
PipeSort_OnInput ==
    /\ stage.at = "amenities"
    /\ stage' = [stage EXCEPT !.at = "sorted"]
    /\ filtered' = SortStage(filtered, filters.sortBy)
    /\ properties' = SortStage(properties, filters.sortBy)
    /\ UNCHANGED <<viewVars, filterVars, revealVars, selectVars, toggleLog>>

\* filtered.sort(...): in place, on the local array
PipeSort == PipeStep("amenities", "sorted", SortStage(filtered, filters.sortBy))

\* onFilteredProperties(filtered), and the reset effect of the grid
PipeEmit ==
    /\ stage.at = "sorted"
    /\ stage' = [stage EXCEPT !.at = "emitted"]
    /\ filteredProperties' = filtered
    /\ visibleCount' = PageSize
    /\ hasMore' = (Len(filteredProperties') > PageSize)
    /\ UNCHANGED <<properties, viewVars, filterVars, selectVars, toggleLog, filtered,
                   isLoadingMore, loadTimers>>

\* the effect runs again on the same collection and criteria (a dependency was
\* replaced by an equal value)
PipeRerun ==
    /\ stage.at = "emitted"
    /\ stage.run < MaxRuns
    /\ stage' = [at |-> "start", run |-> stage.run + 1]
    /\ UNCHANGED <<properties, viewVars, filterVars, revealVars, selectVars, toggleLog, filtered>>

NextPipe ==
    \/ PipeCopy
    \/ PipeSearch
    \/ PipeType
    \/ PipePrice
    \/ PipeSize
    \/ PipeLocation
    \/ PipeAmenities
    \/ PipeSort
    \/ PipeEmit
    \/ PipeRerun

SpecPipe == InitPipe /\ [][NextPipe]_vars


(***************************************************************************)
(* The comparison overlay, for selections drawn from a bounded set.        *)
(***************************************************************************)
\* the ids the user has ticked before the overlay is opened
CompareIds == {1, 3, 4, 7, 8, 11, 16}

\* the years the overlay is looked at in
Years == {2025, 2026}

InitCompare ==
    /\ properties = [i \in 1..NumListings |-> i]
    /\ filters = InitialFilters(properties)
    /\ debouncedSearchTerm = <<>>
    /\ debounceTimer = <<>>
    /\ filteredProperties = ApplyFilters(properties, debouncedSearchTerm, filters)
    /\ selectedIds \in {S \in SUBSET CompareIds : Cardinality(S) <= MaxSelected}
    /\ isCompareOpen = FALSE
    /\ visibleCount = Len(filteredProperties)
    /\ isLoadingMore = FALSE
    /\ hasMore = FALSE
    /\ loadTimers = <<>>
    /\ toggleLog = NoCalls
    /\ filtered = <<>>
    /\ stage = NotFollowed
    /\ mounted = TRUE
    /\ marks = NoMarks
    /\ app = AppShowsGrid
    /\ image = NoImage

NextCompare ==
    \/ OpenCompare
    \/ \E year \in Years : RenderCompare(year)
    \/ \E id \in CompareIds : onRemove(id)
    \/ CloseCompare

SpecCompare == InitCompare /\ [][NextCompare]_vars


(***************************************************************************)
(* App: the collection is loaded, validated and handed to the grid.        *)
(***************************************************************************)
\* what the data file can hold: nothing, a value that is no array, an array
DataInputs == {"absent", "object", "empty", "array"}

isTruthy(data) == data # "absent"
isArray(data) == data \in {"empty", "array"}

\* useState of SearchAndFilters, before the range-init effect
DefaultFilters ==
    [ searchTerm |-> <<>>,
      selectedTypes |-> <<>>,
      priceRange |-> <<0, 0>>,
      sizeRange |-> <<0, 0>>,
      selectedLocations |-> <<>>,
      selectedAmenities |-> <<>>,
      sortBy |-> "date_listed" ]

InitApp ==
    /\ app \in {[data |-> d, loading |-> TRUE, error |-> FALSE, crashed |-> FALSE] :
                   d \in DataInputs}
    /\ mounted = FALSE
    /\ properties = <<>>
    /\ filters = DefaultFilters
    /\ debouncedSearchTerm = <<>>
    /\ debounceTimer = <<>>
    /\ filteredProperties = <<>>
    /\ selectedIds = {}
    /\ isCompareOpen = FALSE
    /\ visibleCount = PageSize
    /\ isLoadingMore = FALSE
    /\ hasMore = TRUE
    /\ loadTimers = <<>>
    /\ toggleLog = NoCalls
    /\ filtered = <<>>
    /\ stage = NotFollowed
    /\ marks = NoMarks
    /\ image = NoImage

gridVars == <<properties, filterVars, revealVars, selectVars, toggleLog>>

\* the data is stored without being validated
LoadResolves_NoValidation ==
    /\ app.loading
    /\ app' = [app EXCEPT !.loading = FALSE]
    /\ UNCHANGED <<gridVars, pipeVars, mounted, marks, image>>

\* loadProperties after its await: validation, setProperties or setError, and
\* setLoading(false) in the finally block
LoadResolves ==
    /\ app.loading
    /\ app' = IF ~isTruthy(app.data) \/ ~isArray(app.data)
              THEN [app EXCEPT !.error = TRUE, !.loading = FALSE]
              ELSE [app EXCEPT !.loading = FALSE]
    /\ UNCHANGED <<gridVars, pipeVars, mounted, marks, image>>

\* App renders past its loading, error and empty screens: the grid is mounted
\* with the collection and its mount effects run; a value that is no array makes
\* the render throw (properties.length of nothing in App, filteredProperties.slice
\* in the grid)
RenderGrid ==
    /\ ~app.loading
    /\ ~app.error
    /\ ~app.crashed
    /\ ~mounted
    /\ app.data # "empty"
    /\ IF isArray(app.data)
       THEN /\ mounted' = TRUE
            /\ properties' = [i \in 1..NumListings |-> i]
            /\ filters' = InitialFilters(properties')
            /\ filteredProperties' = ApplyFilters(properties', <<>>, filters')
            /\ hasMore' = (Len(filteredProperties') > PageSize)
            /\ UNCHANGED <<app, debouncedSearchTerm, debounceTimer, visibleCount,
                           isLoadingMore, loadTimers>>
       ELSE /\ app' = [app EXCEPT !.crashed = TRUE]
            /\ UNCHANGED <<mounted, properties, filterVars, revealVars>>
    /\ UNCHANGED <<selectVars, toggleLog, pipeVars, marks, image>>

NextApp ==
    \/ LoadResolves
    \/ RenderGrid
    \/ mounted /\ \E id \in ClickIds : CardToggle(id)
    \/ mounted /\ \E id \in ClickIds : onRemove(id)
    \/ mounted /\ OpenCompare
    \/ mounted /\ CloseCompare
    \/ mounted /\ loadMoreProperties
    \/ LoadTimerFires

\* the promise loadProperties awaits is eventually resolved
FairApp == InitApp /\ [][NextApp]_vars /\ WF_vars(LoadResolves)


(***************************************************************************)
(* The grid is torn down while the session goes on.                        *)
(***************************************************************************)
\* the grid is unmounted; its pending timeouts stay scheduled
Unmount ==
    /\ mounted
    /\ mounted' = FALSE
    /\ UNCHANGED <<gridVars, pipeVars, marks, app, image>>

NextTeardown ==
    \/ mounted /\ loadMoreProperties
    \/ LoadTimerFires
    \/ mounted /\ \E type \in TypeInputs : handleTypeToggle(type)
    \/ mounted /\ \E id \in ClickIds : CardToggle(id)
    \/ Unmount

SpecTeardown == Init /\ [][NextTeardown]_vars


(***************************************************************************)
(* PropertyImage: one image and its load and error events.  An image URL   *)
(* is modelled by its photo id; `replaced` counts the calls of setImageSrc.*)
(***************************************************************************)
getDefaultImage(type) ==
    CASE type = "office" -> "1497366216548"
      [] type = "retail" -> "1441986300917"
      [] type = "industrial" -> "1553062407"
      [] type = "warehouse" -> "1575992957018"
      [] OTHER -> "1560518883"

getFallbackImages(type) ==
    CASE type = "retail" -> <<"1441986300917", "1553062407", "1575992957018">>
      [] type = "industrial" -> <<"1553062407", "1575992957018", "1497366216548">>
      [] type = "warehouse" -> <<"1575992957018", "1553062407", "1497366216548">>
      [] OTHER -> <<"1497366216548", "1545324418", "1560264280", "1568992687947">>

\* the types an image is rendered for, one of them outside the enumeration
ImageTypes == Range(propertyTypes) \cup {"land"}

\* the src prop: a URL of the listing's own, a URL that is also the first office
\* fallback, or none
ImageSources == {"listing", "1497366216548", "none"}

InitImage ==
    /\ InitGrid
    /\ image \in { [ propertyType |-> type,
                      imageSrc |-> IF src # "none" THEN src ELSE getDefaultImage(type),
                      isLoading |-> (src # "none"),
                      hasError |-> FALSE,
                      retryCount |-> 0,
                      isDefaultImage |-> (src = "none"),
                      replaced |-> 0 ] : type \in ImageTypes, src \in ImageSources }

handleImageLoad ==
    /\ image' = [image EXCEPT !.isLoading = FALSE, !.hasError = FALSE]
    /\ UNCHANGED <<gridVars, pipeVars, mounted, marks, app>>

\* every further fallback of the list is tried, without a limit
handleImageError_NoRetryLimit ==
    /\ LET fallbacks == getFallbackImages(image.propertyType)
       IN  image' =
               IF image.retryCount < Len(fallbacks)
               THEN [image EXCEPT !.hasError = TRUE,
                                  !.retryCount = @ + 1,
                                  !.imageSrc = fallbacks[image.retryCount + 1],
                                  !.replaced = @ + 1,
                                  !.isLoading = TRUE]
               ELSE IF ~image.isDefaultImage
               THEN [image EXCEPT !.imageSrc = getDefaultImage(image.propertyType),
                                  !.replaced = @ + 1,
                                  !.isLoading = TRUE,
                                  !.hasError = FALSE,
                                  !.isDefaultImage = TRUE]
               ELSE [image EXCEPT !.isLoading = FALSE, !.hasError = TRUE]
    /\ UNCHANGED <<gridVars, pipeVars, mounted, marks, app>>

\* fallbacks[retryCount] is element retryCount + 1 of the sequence, and undefined
\* past its end
handleImageError ==
    /\ LET fallbacks == getFallbackImages(image.propertyType)
       IN  image' =
               IF image.retryCount < MaxRetries /\ image.retryCount < Len(fallbacks)
               THEN [image EXCEPT !.hasError = TRUE,
                                  !.retryCount = @ + 1,
                                  !.imageSrc = fallbacks[image.retryCount + 1],
                                  !.replaced = @ + 1,
                                  !.isLoading = TRUE]
               ELSE IF ~image.isDefaultImage
               THEN [image EXCEPT !.imageSrc = getDefaultImage(image.propertyType),
                                  !.replaced = @ + 1,
                                  !.isLoading = TRUE,
                                  !.hasError = FALSE,
                                  !.isDefaultImage = TRUE]
               ELSE [image EXCEPT !.isLoading = FALSE, !.hasError = TRUE]
    /\ UNCHANGED <<gridVars, pipeVars, mounted, marks, app>>

NextImage ==
    \/ handleImageLoad
    \/ handleImageError

SpecImage == InitImage /\ [][NextImage]_vars

(***************************************************************************)
(* The range sliders.                                                      *)
(***************************************************************************)
\* positions of a price slider and of an area slider, within min and max
PriceInputs(props) ==
    {minPrice(props), minPrice(props) + 5 * PriceStep, minPrice(props) + 12 * PriceStep,
     maxPrice(props)}
SizeInputs(props) == {minSize, minSize + SizeStep, maxSize(props)}

\* index 0 is the slider of the lower bound, index 1 that of the upper bound
handlePriceRangeChange(index, value) ==
    /\ filters' = [filters EXCEPT !.priceRange =
                      << IF index = 0 THEN value ELSE filters.priceRange[1],
                         IF index = 1 THEN value ELSE filters.priceRange[2] >>]
    /\ filters' # filters
    /\ EmitFiltered(debouncedSearchTerm, filters')
    /\ UNCHANGED <<properties, pipeVars, viewVars, debouncedSearchTerm, debounceTimer,
                   selectVars, toggleLog>>

handleSizeRangeChange(index, value) ==
    /\ filters' = [filters EXCEPT !.sizeRange =
                      << IF index = 0 THEN value ELSE filters.sizeRange[1],
                         IF index = 1 THEN value ELSE filters.sizeRange[2] >>]
    /\ filters' # filters
    /\ EmitFiltered(debouncedSearchTerm, filters')
    /\ UNCHANGED <<properties, pipeVars, viewVars, debouncedSearchTerm, debounceTimer,
                   selectVars, toggleLog>>

NextRanges ==
    \/ \E index \in {0, 1}, value \in PriceInputs(properties) :
          handlePriceRangeChange(index, value)
    \/ \E index \in {0, 1}, value \in SizeInputs(properties) :
          handleSizeRangeChange(index, value)

SpecRanges == Init /\ [][NextRanges]_vars

\* selection toggles and changes of the filter criteria
NextSelFilter ==
    \/ \E id \in ClickIds : CardToggle(id)
    \/ OpenCompare
    \/ \E id \in ClickIds : onRemove(id)
    \/ CloseCompare
    \/ \E type \in TypeInputs : handleTypeToggle(type)
    \/ \E term \in SearchInputs : handleSearchChange(term)
    \/ DebounceFires

SpecSelFilter == Init /\ [][NextSelFilter]_vars


(***************************************************************************)
(* Properties.                                                             *)
(***************************************************************************)
Min(a, b) == IF a < b THEN a ELSE b

\* C1: after any sequence of card toggles and removals made from within the
\* comparison overlay, the selection set has at most 4 members.
C1_SelectionCap == Cardinality(selectedIds) <= MaxSelected

\* C1 witness: the set is full while a card that is not selected is on display
\* and the overlay is open, so both a refused addition and a removal are at hand.
C1_Witness ==
    /\ Cardinality(selectedIds) = MaxSelected
    /\ isCompareOpen
    /\ \E id \in ClickIds : id \in Range(visibleProperties) /\ id \notin selectedIds

\* C2: from the empty selection, k distinct ids toggled on in sequence (and nothing
\* toggled off) leave exactly the first min(k, 4) ids attempted in the set: an
\* addition attempted at capacity changes nothing.
C2_FirstFourKept ==
    toggleLog.onRun =>
        selectedIds = Range(SubSeq(toggleLog.ids, 1, Min(Len(toggleLog.ids), MaxSelected)))

\* C2 witness: five distinct ids have been toggled on in sequence.
C2_Witness == toggleLog.onRun /\ Len(toggleLog.ids) = MaxSelected + 1

\* C3: toggleSelect(id, false) succeeds whatever the size of the set: afterwards the
\* set is the set before without id (the same set when id was not in it).
C3_RemoveAlwaysSucceeds ==
    (toggleLog.last # <<>> /\ ~toggleLog.last[2]) =>
        selectedIds = toggleLog.before \ {toggleLog.last[1]}

\* C3 witness: a member has just been removed from a full selection set.
C3_Witness ==
    /\ toggleLog.last # <<>>
    /\ ~toggleLog.last[2]
    /\ Cardinality(toggleLog.before) = MaxSelected
    /\ toggleLog.last[1] \in toggleLog.before

\* C4 (as claimed): whenever the comparison overlay is open, the list of listings
\* handed to it has between 2 and 4 elements.
C4_CompareListTwoToFour ==
    isCompareOpen => (Len(CompareList) >= 2 /\ Len(CompareList) <= MaxSelected)

\* C5 (as claimed): the reveal count is 8 or 8 plus a number of steps of 8, and it
\* never exceeds the length of the current filtered sequence.
C5_CountWithinLength ==
    /\ visibleCount >= PageSize
    /\ visibleCount % PageSize = 0
    /\ visibleCount <= Len(filteredProperties)

\* C5 (amended): the reveal count starts at 8, every change of it either adds
\* exactly 8 or puts it back to 8, and the number of materialized items is the
\* smaller of the reveal count and the length of the filtered sequence, so that
\* number, not the count itself, never exceeds the length.
C5_StepsOfEight ==
    /\ visibleCount = PageSize
    /\ [][ \/ visibleCount' = visibleCount
           \/ visibleCount' = visibleCount + PageSize
           \/ visibleCount' = PageSize ]_vars
    /\ [](/\ Len(visibleProperties) = Min(visibleCount, Len(filteredProperties))
          /\ visibleProperties = SubSeq(filteredProperties, 1, Len(visibleProperties)))

\* C5 witness: the count has grown twice and exceeds the length of the sequence.
C5_Witness ==
    /\ visibleCount = 3 * PageSize
    /\ Len(filteredProperties) < visibleCount
    /\ Len(filteredProperties) > 2 * PageSize

\* C6: loadMoreProperties invoked while isLoadingMore is true or hasMore is false
\* schedules no delay and leaves isLoadingMore alone, so at most one load-more
\* delay is pending at any time, and isLoadingMore is true exactly while it is.
C6_SingleDelay ==
    /\ [](Len(loadTimers) <= 1 /\ (isLoadingMore <=> loadTimers # <<>>))
    /\ [][ (isLoadingMore \/ ~hasMore) =>
              (Len(loadTimers') <= Len(loadTimers) /\ (isLoadingMore' => isLoadingMore)) ]_vars

\* C6 witness: a delay is pending while hasMore is still true, the state in which a
\* duplicate trigger would arrive.
C6_Witness == isLoadingMore /\ hasMore /\ Len(loadTimers) = 1

\* C7: an accepted loadMoreProperties sets isLoadingMore; when its delay elapses the
\* reveal count grows by exactly 8 and isLoadingMore is cleared; isLoadingMore never
\* stays true forever.
C7_LoadCompletes ==
    /\ [][ Len(loadTimers') > Len(loadTimers) => isLoadingMore' ]_vars
    /\ [][ Len(loadTimers') < Len(loadTimers) =>
              (visibleCount' = visibleCount + PageSize /\ ~isLoadingMore') ]_vars
    /\ (isLoadingMore ~> ~isLoadingMore)

\* C7 witness: a second page has been revealed and loading is over.
C7_Witness == visibleCount = 2 * PageSize /\ ~isLoadingMore /\ loadTimers = <<>>

\* C8 (as claimed): whenever no load-more callback is pending, hasMore equals
\* (reveal count < length of the current filtered sequence).
C8_HasMoreDerived ==
    loadTimers = <<>> => (hasMore <=> visibleCount < Len(filteredProperties))

\* C9: whenever the filtered sequence changes, the reveal count is put back to 8,
\* hasMore becomes (new length > 8) and min(8, new length) items are visible.
C9_ResetOnChange ==
    [][ filteredProperties' # filteredProperties =>
           /\ visibleCount' = PageSize
           /\ hasMore' = (Len(filteredProperties') > PageSize)
           /\ Len(visibleProperties') = Min(PageSize, Len(filteredProperties')) ]_vars

\* C9 witness: the sequence has shrunk to fewer than 8 items: the count is 8, all
\* of them are visible and hasMore is false.
C9_Witness ==
    /\ Len(filteredProperties) < PageSize
    /\ Len(filteredProperties) > 0
    /\ visibleCount = PageSize
    /\ Len(visibleProperties) = Len(filteredProperties)
    /\ ~hasMore
    /\ isLoadingMore

\* C10: the filter pipeline always runs on the debounced term; a keystroke replaces
\* the pending propagation, the debounced term only ever changes to the text the
\* input holds when the callback runs, and once no callback is pending the debounced
\* term is the current input.
C10_DebouncedTerm ==
    /\ [](/\ filteredProperties = ApplyFilters(properties, debouncedSearchTerm, filters)
          /\ Len(debounceTimer) <= 1
          /\ (debounceTimer # <<>> => Head(debounceTimer) = filters.searchTerm)
          /\ (debounceTimer = <<>> => debouncedSearchTerm = filters.searchTerm))
    /\ [][ debouncedSearchTerm' # debouncedSearchTerm =>
              (debouncedSearchTerm' = filters.searchTerm /\ filters' = filters) ]_vars

\* C10 witness: two keystrokes were made within one quiet period; the term applied
\* is still the one from before them and it narrows the sequence.
C10_Witness ==
    /\ debouncedSearchTerm # <<>>
    /\ filters.searchTerm # <<>>
    /\ debounceTimer # <<>>
    /\ filters.searchTerm # debouncedSearchTerm
    /\ Len(filteredProperties) < Len(ApplyFilters(properties, <<>>, filters))

\* C11: a keystroke that changes only the text the search input holds, the
\* debounced term staying what it was, emits no filtered sequence: the filtered
\* sequence, the reveal count and hasMore are what they were before it.
C11_KeystrokeLeavesGrid ==
    [][ (filters'.searchTerm # filters.searchTerm /\ debouncedSearchTerm' = debouncedSearchTerm)
            => UNCHANGED <<filteredProperties, visibleCount, hasMore>> ]_vars


\* t occurs in s as a contiguous run, after both are lower-cased
OccursLowered(t, s) ==
    \E from \in 1..(Len(s) - Len(t) + 1) :
        SubSeq(toLowerCase(s), from, from + Len(t) - 1) = toLowerCase(t)

\* the text search retains listing i
C12_Retains(i) ==
    \/ debouncedSearchTerm = <<>>
    \/ OccursLowered(debouncedSearchTerm, Catalog(i).title)
    \/ OccursLowered(debouncedSearchTerm, Catalog(i).description)
    \/ OccursLowered(debouncedSearchTerm, Catalog(i).city)
    \/ OccursLowered(debouncedSearchTerm, Catalog(i).state)
    \/ \E amenity \in Range(Catalog(i).amenities) : OccursLowered(debouncedSearchTerm, amenity)

\* C12: the text-search statement keeps, in their order, exactly the listings for
\* which the lower-cased applied term occurs in the lower-cased title, description,
\* city, state or one of the amenities; with the empty term it keeps them all.
C12_TextSearch ==
    [][ stage'.at = "search" => filtered' = SelectSeq(filtered, C12_Retains) ]_vars

\* C12 witness: a non-empty term in other letter case than the texts has kept a
\* listing on an amenity alone and has dropped another listing.
C12_Witness ==
    /\ stage.at = "search"
    /\ debouncedSearchTerm = <<"A", "B">>
    /\ Len(filtered) < Len(properties)
    /\ \E i \in Range(filtered) :
          /\ ~OccursLowered(debouncedSearchTerm, Catalog(i).title)
          /\ ~OccursLowered(debouncedSearchTerm, Catalog(i).description)
          /\ ~OccursLowered(debouncedSearchTerm, Catalog(i).city)
          /\ ~OccursLowered(debouncedSearchTerm, Catalog(i).state)


\* the type filter retains listing i
C13_TypeRetains(i) ==
    \/ filters.selectedTypes = <<>>
    \/ \E k \in 1..Len(filters.selectedTypes) : filters.selectedTypes[k] = Catalog(i).type

\* the location filter retains listing i
C13_LocationRetains(i) ==
    \/ filters.selectedLocations = <<>>
    \/ \E k \in 1..Len(filters.selectedLocations) :
          filters.selectedLocations[k] = Catalog(i).city \o <<",", " ">> \o Catalog(i).state

\* C13: with nothing ticked the type statement and the location statement keep
\* every listing; otherwise they keep, in their order, exactly the listings whose
\* type, respectively whose "city, state" text, is among the ticked ones.
C13_Membership ==
    [][ /\ stage'.at = "type" => filtered' = SelectSeq(filtered, C13_TypeRetains)
        /\ stage'.at = "location" => filtered' = SelectSeq(filtered, C13_LocationRetains)
      ]_vars

\* C13 witness: two types and one location are ticked; listings of both types
\* got past the type statement and the location statement has kept some of them
\* and dropped others.
C13_Witness ==
    /\ stage.at = "location"
    /\ Len(filters.selectedTypes) = 2
    /\ filters.selectedLocations # <<>>
    /\ filtered # <<>>
    /\ \E i \in Range(properties) \ Range(filtered) : C13_TypeRetains(i) /\ ~C13_LocationRetains(i)
    /\ \E i \in Range(properties) \ Range(filtered) : ~C13_TypeRetains(i)
    /\ debouncedSearchTerm = <<>>


\* the price range retains listing i
C14_PriceRetains(i) ==
    /\ filters.priceRange[1] <= Catalog(i).price_per_sqft * Catalog(i).total_sqft
    /\ Catalog(i).price_per_sqft * Catalog(i).total_sqft <= filters.priceRange[2]

\* the area range retains listing i
C14_AreaRetains(i) ==
    /\ filters.sizeRange[1] <= Catalog(i).total_sqft
    /\ Catalog(i).total_sqft <= filters.sizeRange[2]

\* C14: the price statement and the area statement are applied in every run and
\* keep, in their order, exactly the listings with
\* priceLo <= price_per_sqft * total_sqft <= priceHi, respectively
\* areaLo <= total_sqft <= areaHi: a value equal to a bound is kept.
C14_InclusiveRanges ==
    [][ /\ stage'.at = "price" => filtered' = SelectSeq(filtered, C14_PriceRetains)
        /\ stage'.at = "size" => filtered' = SelectSeq(filtered, C14_AreaRetains)
      ]_vars

\* C14 witness: both sliders were moved off the bounds of the collection; a
\* listing whose total price is the lower price bound and whose area is the upper
\* area bound was kept, and both statements dropped a listing.
C14_Witness ==
    /\ stage.at = "size"
    /\ filters.priceRange[1] > minPrice(properties)
    /\ filters.sizeRange[2] < maxSize(properties)
    /\ \E i \in Range(filtered) :
          /\ totalPrice(Catalog(i)) = filters.priceRange[1]
          /\ Catalog(i).total_sqft = filters.sizeRange[2]
    /\ \E i \in Range(properties) \ Range(filtered) : ~C14_PriceRetains(i)
    /\ \E i \in Range(properties) \ Range(filtered) : C14_PriceRetains(i) /\ ~C14_AreaRetains(i)
    /\ filters.selectedTypes = <<>>
    /\ debouncedSearchTerm = <<>>


\* listing i has every required amenity
C15_HasAllRequired(i) ==
    \A k \in 1..Len(filters.selectedAmenities) :
        \E j \in 1..Len(Catalog(i).amenities) :
            Catalog(i).amenities[j] = filters.selectedAmenities[k]

\* C15: the amenities statement keeps, in their order, exactly the listings that
\* have every required amenity; with a required amenity no listing without
\* amenities is kept, and with none required every listing is kept.
C15_AllAmenities ==
    [][ stage'.at = "amenities" =>
           /\ filtered' = SelectSeq(filtered, C15_HasAllRequired)
           /\ filters.selectedAmenities # <<>> =>
                 \A i \in Range(filtered') : Catalog(i).amenities # <<>>
           /\ filters.selectedAmenities = <<>> => filtered' = filtered ]_vars

\* C15 witness: two amenities are required; the statement has kept a listing,
\* dropped one that has only one of the two and dropped one without amenities.
C15_Witness ==
    /\ stage.at = "amenities"
    /\ Len(filters.selectedAmenities) = 2
    /\ filtered # <<>>
    /\ \E i \in Range(properties) \ Range(filtered) :
          /\ filters.selectedAmenities[1] \in Range(Catalog(i).amenities)
          /\ filters.selectedAmenities[2] \notin Range(Catalog(i).amenities)
    /\ \E i \in Range(properties) \ Range(filtered) : Catalog(i).amenities = <<>>
    /\ filters.selectedTypes = <<>>
    /\ filters.selectedLocations = <<>>


\* lo and hi are the least and the greatest value of the set S
SpanOf(S, lo, hi) ==
    /\ lo \in S
    /\ hi \in S
    /\ \A v \in S : lo <= v /\ v <= hi

\* C16: while no slider has been moved, the price range is [min, max] of the total
\* price over the full collection and the area range is [min, max] of the total
\* area over the full collection, however short the filtered sequence has become.
C16_RangesSpanCollection ==
    /\ SpanOf({Catalog(i).price_per_sqft * Catalog(i).total_sqft : i \in Range(properties)},
              filters.priceRange[1], filters.priceRange[2])
    /\ SpanOf({Catalog(i).total_sqft : i \in Range(properties)},
              filters.sizeRange[1], filters.sizeRange[2])


\* date d is not later than date e
NotLater(d, e) ==
    \/ d.year < e.year
    \/ d.year = e.year /\ d.month < e.month
    \/ d.year = e.year /\ d.month = e.month /\ d.day <= e.day

\* listing a may stand right before listing b under the sort key
C17_InKeyOrder(key, a, b) ==
    CASE key = "date_listed" -> NotLater(b.date_listed, a.date_listed)
      [] key = "date_listed_old" -> NotLater(a.date_listed, b.date_listed)
      [] key = "price_low" ->
            a.price_per_sqft * a.total_sqft <= b.price_per_sqft * b.total_sqft
      [] key = "price_high" ->
            a.price_per_sqft * a.total_sqft >= b.price_per_sqft * b.total_sqft
      [] key = "size_large" -> a.total_sqft >= b.total_sqft
      [] key = "size_small" -> a.total_sqft <= b.total_sqft
      [] key = "title" -> localeCompare(a.title, b.title) <= 0

\* C17: the sort statement rearranges the listings it is given, none lost and
\* none added, so that every adjacent pair is in the order of the selected key;
\* the listings emitted are the same whatever the sort key.
C17_SortedByKey ==
    /\ [][ stage'.at = "sorted" =>
              /\ Len(filtered') = Len(filtered)
              /\ Range(filtered') = Range(filtered)
              /\ \A k \in 1..(Len(filtered') - 1) :
                    C17_InKeyOrder(filters.sortBy, Catalog(filtered'[k]),
                                   Catalog(filtered'[k + 1])) ]_vars
    /\ [](stage.at = "emitted" =>
             \A key \in sortOptions :
                 Range(ApplyFilters(properties, debouncedSearchTerm,
                                    [filters EXCEPT !.sortBy = key]))
                     = Range(filteredProperties))

\* C17 witness: at least four listings got past the narrowing statements, one
\* did not, and sorting by descending price has changed their order.
C17_Witness ==
    /\ stage.at = "sorted"
    /\ filters.sortBy = "price_high"
    /\ Len(filtered) >= 4
    /\ Len(filtered) < Len(properties)
    /\ LET Kept(i) == i \in Range(filtered) IN filtered # SelectSeq(properties, Kept)
    /\ \E k \in 1..(Len(filtered) - 1) :
          totalPrice(Catalog(filtered[k])) > totalPrice(Catalog(filtered[k + 1]))


\* listings a and b have the same value of the sort key
C18_SameKey(key, a, b) ==
    CASE key \in {"date_listed", "date_listed_old"} -> a.date_listed = b.date_listed
      [] key \in {"price_low", "price_high"} ->
            a.price_per_sqft * a.total_sqft = b.price_per_sqft * b.total_sqft
      [] key \in {"size_large", "size_small"} -> a.total_sqft = b.total_sqft
      [] key = "title" -> a.title = b.title

\* the position of listing i in the collection
PositionIn(s, i) == CHOOSE k \in 1..Len(s) : s[k] = i

\* C18: after the sort statement, two listings with the same value of the sort
\* key stand in the order they have in the input collection, for every key.
C18_StableSort ==
    [][ stage'.at = "sorted" =>
           \A k \in 1..Len(filtered'), m \in 1..Len(filtered') :
               (k < m /\ C18_SameKey(filters.sortBy, Catalog(filtered'[k]),
                                     Catalog(filtered'[m])))
                   => PositionIn(properties, filtered'[k]) < PositionIn(properties, filtered'[m])
      ]_vars

\* C18 witness: the sorted sequence has two neighbours with the same title, the
\* one with the greater id first as in the collection, and sorting has moved
\* listings.
C18_Witness ==
    /\ stage.at = "sorted"
    /\ filters.sortBy = "title"
    /\ \E k \in 1..(Len(filtered) - 1) :
          /\ Catalog(filtered[k]).title = Catalog(filtered[k + 1]).title
          /\ filtered[k] > filtered[k + 1]
    /\ LET Kept(i) == i \in Range(filtered) IN filtered # SelectSeq(properties, Kept)


\* the criteria one step more restrictive than those of the state, each with the
\* term applied with them
C19_Narrowings ==
    LET amenityNames == UNION {Range(Catalog(i).amenities) : i \in Range(properties)}
        locationNames == {LocationOf(Catalog(i).city, Catalog(i).state) : i \in Range(properties)}
        letters == {"a", "B", "c"}
    IN  {<<debouncedSearchTerm, [filters EXCEPT !.selectedAmenities = Append(@, a)]>> :
            a \in amenityNames \ Range(filters.selectedAmenities)}
        \cup {<<debouncedSearchTerm \o <<c>>, filters>> : c \in letters}
        \cup {<<<<c>> \o debouncedSearchTerm, filters>> : c \in letters}
        \cup {<<debouncedSearchTerm, [filters EXCEPT !.priceRange = <<@[1] + d, @[2] - e>>]>> :
                d \in {0, PriceStep, 6 * PriceStep}, e \in {0, PriceStep, 6 * PriceStep}}
        \cup {<<debouncedSearchTerm, [filters EXCEPT !.sizeRange = <<@[1] + d, @[2] - e>>]>> :
                d \in {0, SizeStep, 3 * SizeStep}, e \in {0, SizeStep, 3 * SizeStep}}
        \cup {<<debouncedSearchTerm, [filters EXCEPT !.selectedTypes = <<t>>]>> :
                t \in IF filters.selectedTypes = <<>> THEN Range(propertyTypes) ELSE {}}
        \cup {<<debouncedSearchTerm, [filters EXCEPT !.selectedLocations = <<l>>]>> :
                l \in IF filters.selectedLocations = <<>> THEN locationNames ELSE {}}

\* C19: whatever was emitted for the criteria of the state, the pipeline run on
\* the same collection with criteria that differ in one more required amenity, a
\* longer search term containing the first, a narrower price or area range, or a
\* first ticked type or location, yields listings among those emitted.
C19_NarrowingMonotone ==
    stage.at = "emitted" =>
        \A c \in C19_Narrowings :
            Range(ApplyFilters(properties, c[1], c[2])) \subseteq Range(filteredProperties)

\* C19 witness: with one amenity required and a term applied, requiring a second
\* amenity leaves some but not all of the emitted listings, and so does a longer
\* term.
C19_Witness ==
    /\ stage.at = "emitted"
    /\ Len(filters.selectedAmenities) = 1
    /\ debouncedSearchTerm # <<>>
    /\ \E c \in C19_Narrowings :
          /\ Len(c[2].selectedAmenities) = 2
          /\ Range(ApplyFilters(properties, c[1], c[2])) # {}
          /\ Range(ApplyFilters(properties, c[1], c[2])) # Range(filteredProperties)
    /\ \E c \in C19_Narrowings :
          /\ c[1] # debouncedSearchTerm
          /\ Range(ApplyFilters(properties, c[1], c[2])) # {}
          /\ Range(ApplyFilters(properties, c[1], c[2])) # Range(filteredProperties)


C21_BestByEquality ==
    \A k \in 1..Len(marks.list) :
        LET p == Catalog(marks.list[k])
        IN  /\ marks.price[k] <=>
                  \A j \in 1..Len(marks.list) :
                      p.price_per_sqft * p.total_sqft
                          <= Catalog(marks.list[j]).price_per_sqft * Catalog(marks.list[j]).total_sqft
            /\ marks.size[k] <=>
                  \A j \in 1..Len(marks.list) : p.total_sqft >= Catalog(marks.list[j]).total_sqft

\* C21 witness: three listings with areas 1000, 1000, 900 are compared; exactly
\* the first two are marked size-best, and two listings are marked price-best.
C21_Witness ==
    /\ Len(marks.list) = 3
    /\ [k \in 1..3 |-> Catalog(marks.list[k]).total_sqft] = <<1000, 1000, 900>>
    /\ marks.size = <<TRUE, TRUE, FALSE>>
    /\ Cardinality({k \in 1..3 : marks.price[k]}) = 2

\* C22: in every render of the comparison a listing without year_built is not
\* marked age-best; a listing with year_built is marked iff its age, the current
\* year minus year_built, is the least age of the compared listings that have one;
\* so none is marked when none has a year_built.
C22_AgeBest ==
    \A k \in 1..Len(marks.list) :
        LET p == Catalog(marks.list[k])
            dated == {j \in 1..Len(marks.list) : Catalog(marks.list[j]).year_built # 0}
        IN  marks.age[k] <=>
                /\ k \in dated
                /\ \A j \in dated :
                      marks.year - p.year_built <= marks.year - Catalog(marks.list[j]).year_built

\* C22 witness: a comparison of listings none of which has a year_built was
\* rendered, and none is marked.
C22_Witness ==
    /\ Len(marks.list) >= 2
    /\ \A k \in 1..Len(marks.list) : Catalog(marks.list[k]).year_built = 0
    /\ \A k \in 1..Len(marks.list) : ~marks.age[k]


\* the collection App was given is absent or no array
C23_Invalid == app.data \in {"absent", "object"}

\* C23: when the collection is absent or no array, loading finishes with the
\* error shown; the grid is never mounted on it, so nothing is filtered, revealed,
\* selected or compared, and no render throws.
C23_InvalidInputShown ==
    /\ [](C23_Invalid =>
             /\ ~mounted
             /\ ~app.crashed
             /\ ~app.loading => app.error
             /\ properties = <<>> /\ filteredProperties = <<>> /\ filters = DefaultFilters
             /\ selectedIds = {} /\ ~isCompareOpen /\ visibleCount = PageSize
             /\ ~isLoadingMore /\ loadTimers = <<>>)
    /\ (C23_Invalid /\ app.loading) ~> (~app.loading /\ app.error)

\* C23 witness: a value that is no array was given and loading has finished with
\* the error shown.
C23_Witness ==
    /\ app.data = "object"
    /\ ~app.loading
    /\ app.error
    /\ ~mounted


C25_StaleDelayHarmless ==
    [][ (/\ loadTimers # <<>>
         /\ loadTimers' = Tail(loadTimers)
         /\ Head(loadTimers) # Len(filteredProperties))
            => /\ visibleCount' = PageSize
               /\ hasMore' = (PageSize < Len(filteredProperties)) ]_vars


\* C26: the grid never comes to rest (no delay pending, not loading) with hasMore
\* false while a listing of the filtered sequence is still hidden; from there no
\* load-more can start, so the hidden listings would never be revealed.
C26_NoRestWithHidden ==
    (loadTimers = <<>> /\ ~isLoadingMore /\ ~hasMore)
        => visibleCount >= Len(filteredProperties)


\* C27: every selected id is the id of a listing of the filtered sequence, and the
\* comparison lists as many listings as the compare trigger counts.
C27_SelectionWithinFiltered ==
    /\ selectedIds \subseteq {Catalog(i).id : i \in Range(filteredProperties)}
    /\ Len(CompareList) = Cardinality(selectedIds)


\* C27 as amended: a selected id stays selected when a change of the criteria
\* takes its listing out of the filtered sequence; the comparison lists exactly
\* the selected listings that are in the filtered sequence, each once, so at most
\* as many as the compare trigger counts, and as many when every selected id is in
\* the filtered sequence.
C27_ComparesSelectedFiltered ==
    /\ {Catalog(i).id : i \in Range(CompareList)}
           = selectedIds \cap {Catalog(i).id : i \in Range(filteredProperties)}
    /\ Len(CompareList) = Cardinality(Range(CompareList))
    /\ Len(CompareList) <= Cardinality(selectedIds)
    /\ selectedIds \subseteq {Catalog(i).id : i \in Range(filteredProperties)}
           => Len(CompareList) = Cardinality(selectedIds)

\* C27 witness: three listings are selected and the type filter has since taken
\* two of them out of the filtered sequence; the comparison lists one.
C27_Witness ==
    /\ Cardinality(selectedIds) = 3
    /\ filters.selectedTypes # <<>>
    /\ Len(CompareList) = 1


\* C28: with the default criteria (nothing typed, nothing ticked, the ranges as
\* the range initialization and clearFilters set them) the filtered sequence holds
\* every listing of the collection exactly once.
C28_DefaultKeepsAll ==
    (filters = InitialFilters(properties) /\ debouncedSearchTerm = <<>>)
        => /\ Range(filteredProperties) = Range(properties)
           /\ Len(filteredProperties) = Len(properties)


\* C29: whatever the sliders are moved to, within their bounds, the lower bound of
\* the price range and of the area range is at most the upper bound.
C29_RangesOrdered ==
    /\ filters.priceRange[1] <= filters.priceRange[2]
    /\ filters.sizeRange[1] <= filters.sizeRange[2]


\* C30: over any sequence of load and error events of an image, retryCount never
\* exceeds 3 and the source is replaced at most four times, at most three times by
\* a fallback and then at most once by the default image; once that is done an
\* error changes no source.
C30_FallbackTerminates ==
    /\ [](/\ image.retryCount <= 3
          /\ image.replaced <= 4
          /\ image.replaced - image.retryCount \in {0, 1})
    /\ [][ (image.retryCount = 3 /\ image.isDefaultImage)
              => (image'.imageSrc = image.imageSrc /\ image'.replaced = image.replaced) ]_vars
    /\ [][ image'.replaced - image'.retryCount > image.replaced - image.retryCount
              => image.retryCount = 3 ]_vars

\* C30 witness: three fallbacks and the default image were tried for an image
\* that had a source of its own, and a further error has left the source alone.
C30_Witness ==
    /\ image.replaced = 4
    /\ image.retryCount = 3
    /\ image.isDefaultImage
    /\ image.hasError
    /\ ~image.isLoading


====
